---- MODULE Spec2Model ----
(***************************************************************************)
(* A model of cereal's named binary archives                               *)
(* (include/cereal/archives/named_binary.hpp):                             *)
(*   NamedBinaryOutputArchive  - a stack of nodes (itsNodes), a pending    *)
(*                               name (nextName) and an output stream      *)
(*                               (itsStream);                              *)
(*   NamedBinaryInputArchive   - an input stream read front to back.       *)
(* Bytes are numbers 0..255, a name or a buffer is a sequence of bytes,    *)
(* the top of the node stack is the last element of itsNodes.              *)
(***************************************************************************)
EXTENDS Integers, Sequences, FiniteSets, TLC

(***************************************************************************)
(* Bounds of the exploration.                                              *)
(***************************************************************************)
\* saveBinary calls in one session
MaxWrites == 2
\* addNode calls in one session
MaxNodes == 2
\* loadBinary calls in one session
MaxReads == 2

(***************************************************************************)
(* Program constants.                                                      *)
(***************************************************************************)
\* sizeof(std::size_t), added to the total size of a record
SizeofSizeT == 8
\* sizeof(uint64_t), the number of bytes put for one length field
SizeofUint64 == 8
\* the mask 0xF applied to every byte of a length field
LengthMask == 15

(***************************************************************************)
(* Inputs of the host: the names given to setNextName and the values given *)
(* to saveBinary (raw bytes of the value, least significant first).        *)
(***************************************************************************)
NameX == <<120>>
NameAB == <<97, 98>>
Names == {NameX, NameAB}

\* the 4 bytes of the int 42
Int42 == <<42, 0, 0, 0>>
\* the 8 bytes of the double 1.0
Double1 == <<0, 0, 0, 0, 0, 0, 240, 63>>
\* an empty BinaryData
NoBytes == <<>>
Values == {Int42, Double1, NoBytes}

VARIABLES
    itsNodes,    \* NamedBinaryOutputArchive::itsNodes, top = last element
    nextName,    \* NamedBinaryOutputArchive::nextName
    itsStream,   \* the bytes the output stream has accepted
    streamBad,   \* the output stream's badbit/failbit
    threw,       \* the Exception the writer has thrown: "none", "saveBinary", "finishNode"
    ub,          \* top() was called on an empty stack
    phase,       \* "write": the output archive is in use; "read": the input archive
    inStream,    \* the bytes of the input stream
    rpos,        \* the input stream's get position
    rthrew,      \* the reader has thrown its Exception
    nBegin,      \* history: prologue calls
    nEnd,        \* history: epilogue calls that returned
    written,     \* history: the saveBinary calls that returned
    nodeLog,     \* history: per open node, the name and bytes each saveBinary gave it
    readLog,     \* history: the loadBinary calls that returned
    call,        \* history: the last call and the state it started from
    sib,         \* history: the run of empty sibling nodes just completed
    open,        \* history: per open node, the number of the prologue that pushed
                 \* it and the stack it was pushed on
    emitLog      \* history: the finishNode calls that wrote to the output stream

vars == <<itsNodes, nextName, itsStream, streamBad, threw, ub, phase, inStream,
          rpos, rthrew, nBegin, nEnd, written, nodeLog, readLog, call, sib,
          open, emitLog>>

readerVars == <<inStream, rpos, rthrew, readLog>>

(***************************************************************************)
(* Sequences of bytes.                                                     *)
(***************************************************************************)
Min(a, b) == IF a < b THEN a ELSE b

Take(s, n) == SubSeq(s, 1, Min(n, Len(s)))

Drop(s, n) == SubSeq(s, Min(n, Len(s)) + 1, Len(s))

(***************************************************************************)
(* The node stack.                                                         *)
(***************************************************************************)
\* NamedValue_t as default-constructed; addNode sets itsSize = 0 again
BlankNode == [itsStream |-> <<>>, itsSize |-> 0, itsName |-> <<>>, written |-> FALSE]

Top(nodes) == nodes[Len(nodes)]

Pop(nodes) == SubSeq(nodes, 1, Len(nodes) - 1)

\* an emplace that adds nothing
PushNothing(nodes, node) == nodes

\* line 119: itsNodes.emplace()
Push(nodes, node) == Append(nodes, node)

\* a write through the bottom of the stack instead of its top
SetBottom(nodes, node) == [nodes EXCEPT ![1] = node]

\* itsNodes.top() as the target of an assignment
SetTop(nodes, node) == [nodes EXCEPT ![Len(nodes)] = node]

(***************************************************************************)
(* The streams.  A streambuf accepts the first n bytes it is given, n      *)
(* chosen by the stream (all of them unless it is exhausted or fails).     *)
(***************************************************************************)
\* an sputn that puts the bytes in front of what the buffer holds
SputnInFront(buf, data, n) == Take(data, n) \o buf

\* rdbuf()->sputn(data, size) accepting n bytes: the buffer afterwards
Sputn(buf, data, n) == buf \o Take(data, n)

\* a write that replaces what the stream holds
StreamWriteOver(buf, bad, data, n) == IF bad THEN buf ELSE Take(data, n)

\* ostream::put / ostream::write of the bytes of `data` in turn on a stream
\* that is good for the first n of them: nothing is written once it is bad
StreamWrite(buf, bad, data, n) == IF bad THEN buf ELSE Sputn(buf, data, n)

\* the stream's state after that: the first byte refused sets badbit
StreamBadAfter(bad, data, n) == bad \/ n < Len(data)

\* the byte counts explored for a request of `size` bytes: all, or one short
Accepts(size) == {n \in {size - 1, size} : n >= 0}

(***************************************************************************)
(* saveBinary, lines 75-86.                                                *)
(***************************************************************************)
\* a binding that keeps the name a node already has
BindNameOnce(node, name) == IF node.itsName # <<>> THEN node ELSE [node EXCEPT !.itsName = name]

\* line 78: itsValue.itsName = nextName
BindName(node, name) == [node EXCEPT !.itsName = name]

\* line 81: itsValue.itsSize = sputn(data, size), the node's stream taking n bytes
SaveBytes(node, data, n) ==
    [node EXCEPT !.itsStream = Sputn(node.itsStream, data, n), !.itsSize = n]

\* a test that throws only when nothing at all was appended
SaveFailedIfNone(n, size) == n = 0 /\ size # 0

\* line 82: itsValue.itsSize != size
SaveFailed(n, size) == n # size

\* a saveBinary that leaves the pending name in place
KeptName == nextName

\* line 79: nextName = ""
ClearedName == <<>>

NoCall == [op |-> "none", nodes |-> <<>>, name |-> <<>>, sink |-> <<>>,
           log |-> <<>>, over |-> <<>>, arg |-> <<>>, ok |-> TRUE,
           size |-> 0, pos |-> 0, below |-> <<>>]

\* The history of one call: its argument, whether the streams took every byte
\* it gave them, and the state it started from: the node stack, the pending
\* name, the output stream, the top node's earlier writes, and the pending
\* name that the call before it replaced (if that was a setNextName), and the
\* stack the top node was pushed on.  For a
\* call of the input archive: the size asked for, the get position, the input
\* stream and the reads returned before it.
CallOf(op, arg, ok) ==
    [op |-> op, nodes |-> itsNodes, name |-> nextName, sink |-> itsStream,
     log |-> IF nodeLog = <<>> THEN <<>> ELSE Top(nodeLog),
     over |-> IF call.op = "setNextName" THEN call.name ELSE <<>>,
     arg |-> arg, ok |-> ok, size |-> 0, pos |-> 0,
     below |-> IF open = <<>> THEN <<>> ELSE Top(open).below]

\* the bytes the saveBinary calls of one node's log appended, in call order
RECURSIVE OwnBytes(_)
OwnBytes(log) == IF log = <<>> THEN <<>> ELSE Head(log).data \o OwnBytes(Tail(log))

NoSib == [n |-> 0, sink |-> <<>>, open |-> FALSE]

\* the host is inside a value: a prologue has run whose epilogue has not
HostInValue == nBegin > nEnd

WriterRuns == phase = "write" /\ threw = "none" /\ ~ub

saveBinary(data, n) ==
    /\ WriterRuns
    /\ HostInValue
    /\ Len(written) < MaxWrites
    /\ IF itsNodes = <<>>
       THEN /\ ub' = TRUE
            /\ UNCHANGED <<itsNodes, nextName, threw, written, nodeLog>>
       ELSE /\ itsNodes' = SetTop(itsNodes,
                               SaveBytes(BindName(Top(itsNodes), nextName), data, n))
            /\ nextName' = ClearedName
            /\ threw' = IF SaveFailed(n, Len(data)) THEN "saveBinary" ELSE "none"
            /\ written' = IF SaveFailed(n, Len(data)) THEN written
                          ELSE Append(written,
                                      [data |-> data, name |-> nextName,
                                       first |-> Top(nodeLog) = <<>>])
            /\ nodeLog' = SetTop(nodeLog,
                                  Append(Top(nodeLog),
                                         [name |-> nextName, data |-> Take(data, n)]))
            /\ ub' = ub
    /\ call' = CallOf("saveBinary", data, n = Len(data))
    /\ sib' = NoSib
    /\ UNCHANGED <<itsStream, streamBad, nBegin, nEnd, phase, open, emitLog>>
    /\ UNCHANGED readerVars

(***************************************************************************)
(* finishNode, lines 88-115.                                               *)
(***************************************************************************)
\* v >> k on a uint64_t
RECURSIVE ShiftRight(_, _)
ShiftRight(v, k) == IF k = 0 \/ v = 0 THEN v ELSE ShiftRight(v \div 2, k - 1)

\* lines 97, 100, 104: (v >> 8*i) & 0xF
LengthByte(v, i) == ShiftRight(v, 8 * i) % (LengthMask + 1)

\* the loops of lines 96-98, 99-101, 103-105: the bytes put for one length
LengthField(v) == [i \in 1..SizeofUint64 |-> LengthByte(v, i - 1)]

\* a total size that leaves the name out
TotalSizeNoName(node) == node.itsSize + SizeofSizeT

\* line 95
TotalSize(node) == node.itsSize + Len(node.itsName) + SizeofSizeT

\* lines 96-105: what is put and written before the payload
RecordHeader(node) ==
    LengthField(TotalSize(node)) \o LengthField(Len(node.itsName))
        \o node.itsName \o LengthField(node.itsSize)

\* lines 107-108: the first min(value_str.size(), itsSize) bytes of the node's stream
RecordPayload(node) == Take(node.itsStream, node.itsSize)

\* an elision test on the node's buffer instead of its itsSize
IsElidedByBuffer(node) == node.itsStream = <<>>

\* line 91
IsElided(node) == node.itsSize = 0

\* a finishNode that forgets to pop
PopNodeKept(nodes) == nodes

\* lines 92 and 114
PopNode(nodes) == Pop(nodes)

\* line 109: writtenSize != node.itsSize
FinishFailed(writtenSize, size) == writtenSize # size

\* a finishNode that pops the node before it throws
NodesAfterThrowPopped(nodes) == Pop(nodes)

\* lines 109-113: the throw leaves the stack as it is
NodesAfterThrow(nodes) == nodes

SibAfterFinish ==
    IF sib.open THEN [n |-> Min(sib.n + 1, 2), sink |-> sib.sink, open |-> FALSE]
    ELSE NoSib

\* The history of one finishNode that wrote: the node's number and the numbers
\* of the nodes below it, the output stream it found and its length, the
\* header and payload bytes the stream took, the bytes that the saveBinary
\* calls on this node appended to the node's own buffer, the node's name and
\* the saveBinary calls on it.
EmitOf(header, hdr, payload, pay) ==
    [id |-> Top(open).id,
     anc |-> {open[k].id : k \in 1..(Len(open) - 1)},
     at |-> Len(itsStream),
     sink |-> itsStream,
     hdr |-> IF streamBad THEN <<>> ELSE Take(header, hdr),
     pay |-> Take(payload, pay),
     own |-> OwnBytes(Top(nodeLog)),
     name |-> Top(itsNodes).itsName,
     log |-> Top(nodeLog)]

finishNode(hdr, pay) ==
    /\ WriterRuns
    /\ HostInValue
    /\ IF itsNodes = <<>>
       THEN /\ ub' = TRUE
            /\ call' = CallOf("finishNode", <<>>, TRUE)
            /\ UNCHANGED <<itsNodes, itsStream, streamBad, threw, nEnd, nodeLog,
                           open, emitLog>>
       ELSE LET node == Top(itsNodes)
                header == RecordHeader(node)
                payload == RecordPayload(node)
            IN  IF IsElided(node)
                THEN /\ itsNodes' = PopNode(itsNodes)
                     /\ nodeLog' = Pop(nodeLog)
                     /\ nEnd' = nEnd + 1
                     /\ open' = Pop(open)
                     /\ call' = CallOf("finishNode", <<>>, TRUE)
                     /\ UNCHANGED <<itsStream, streamBad, threw, ub, emitLog>>
                ELSE /\ itsStream' = Sputn(StreamWrite(itsStream, streamBad, header, hdr),
                                           payload, pay)
                     /\ streamBad' = StreamBadAfter(streamBad, header, hdr)
                     /\ call' = CallOf("finishNode", <<>>,
                                       ~streamBad /\ hdr = Len(header) /\ pay = Len(payload))
                     /\ emitLog' = Append(emitLog, EmitOf(header, hdr, payload, pay))
                     /\ IF FinishFailed(pay, node.itsSize)
                        THEN /\ threw' = "finishNode"
                             /\ itsNodes' = NodesAfterThrow(itsNodes)
                             /\ UNCHANGED <<nodeLog, nEnd, open>>
                        ELSE /\ threw' = threw
                             /\ itsNodes' = PopNode(itsNodes)
                             /\ nodeLog' = Pop(nodeLog)
                             /\ open' = Pop(open)
                             /\ nEnd' = nEnd + 1
                     /\ ub' = ub
    /\ sib' = SibAfterFinish
    /\ UNCHANGED <<nextName, nBegin, written, phase>>
    /\ UNCHANGED readerVars

(***************************************************************************)
(* addNode, lines 117-122, called by prologue (lines 134-138).             *)
(***************************************************************************)
addNode ==
    /\ WriterRuns
    /\ nBegin < MaxNodes
    /\ itsNodes' = Push(itsNodes, [BlankNode EXCEPT !.itsSize = 0])
    /\ nodeLog' = Append(nodeLog, <<>>)
    /\ open' = Append(open, [id |-> nBegin + 1, below |-> itsNodes])
    /\ nBegin' = nBegin + 1
    /\ call' = CallOf("addNode", <<>>, TRUE)
    /\ sib' = IF sib.n >= 1 /\ ~sib.open THEN [sib EXCEPT !.open = TRUE]
              ELSE [n |-> 0, sink |-> itsStream, open |-> TRUE]
    /\ UNCHANGED <<nextName, itsStream, streamBad, threw, ub, nEnd, written, phase,
                   emitLog>>
    /\ UNCHANGED readerVars

(***************************************************************************)
(* NamedBinaryOutputArchive::setNextName, lines 124-126.                   *)
(***************************************************************************)
setNextName(name) ==
    /\ WriterRuns
    /\ Len(written) < MaxWrites
    /\ nextName' = name
    /\ call' = CallOf("setNextName", name, TRUE)
    /\ sib' = NoSib
    /\ UNCHANGED <<itsNodes, itsStream, streamBad, threw, ub, nBegin, nEnd,
                   written, nodeLog, phase, open, emitLog>>
    /\ UNCHANGED readerVars

(***************************************************************************)
(* The input archive: the constructor (lines 161-166) over the bytes the   *)
(* output archive produced, and loadBinary (lines 171-177).                *)
(***************************************************************************)
\* The session has ended (every prologue has had its epilogue) and the output
\* archive is destroyed: what is left of it is the stream it wrote.
openInput ==
    /\ WriterRuns
    /\ ~HostInValue
    /\ phase' = "read"
    /\ inStream' = itsStream
    /\ rpos' = 0
    /\ call' = [NoCall EXCEPT !.op = "openInput"]
    /\ sib' = NoSib
    /\ nextName' = <<>>
    /\ nBegin' = 0
    /\ nEnd' = 0
    /\ open' = <<>>
    /\ emitLog' = <<>>
    /\ UNCHANGED <<rthrew, readLog>>
    /\ UNCHANGED <<itsNodes, itsStream, streamBad, threw, ub, written, nodeLog>>

\* an sgetn that reads from the start of the stream whatever the position
SgetnFromStart(stream, pos, size) == Take(stream, size)

\* rdbuf()->sgetn(data, size): the bytes from the get position, at most size
Sgetn(stream, pos, size) == Take(Drop(stream, pos), size)

loadBinary(size) ==
    /\ phase = "read"
    /\ ~rthrew
    /\ Len(readLog) < MaxReads
    /\ LET got == Sgetn(inStream, rpos, size)
       IN  /\ rpos' = rpos + Len(got)
           /\ rthrew' = (Len(got) # size)
           /\ readLog' = IF Len(got) # size THEN readLog
                         ELSE Append(readLog, [size |-> size, data |-> got, pos |-> rpos])
    /\ call' = [NoCall EXCEPT !.op = "loadBinary", !.size = size, !.pos = rpos,
                              !.sink = inStream, !.log = readLog]
    /\ UNCHANGED <<inStream, phase>>
    /\ UNCHANGED <<itsNodes, nextName, itsStream, streamBad, threw, ub,
                   nBegin, nEnd, written, nodeLog, sib, open, emitLog>>

(***************************************************************************)
(* NamedBinaryInputArchive::setNextName, lines 179-181.                    *)
(***************************************************************************)
\* a reader that skips a name's bytes in the stream
PositionPastName(pos, name) == pos + Len(name)

\* lines 179-181: the body is empty, the get position stays where it is
PositionAfterName(pos, name) == pos

inputSetNextName(name) ==
    /\ phase = "read"
    /\ ~rthrew
    /\ Len(readLog) < MaxReads
    /\ rpos' = PositionAfterName(rpos, name)
    /\ call' = [NoCall EXCEPT !.op = "inputSetNextName", !.arg = name, !.pos = rpos,
                              !.sink = inStream, !.log = readLog]
    /\ UNCHANGED <<inStream, rthrew, readLog, phase>>
    /\ UNCHANGED <<itsNodes, nextName, itsStream, streamBad, threw, ub,
                   nBegin, nEnd, written, nodeLog, sib, open, emitLog>>

(***************************************************************************)
(* The specification.                                                      *)
(***************************************************************************)
Init ==
    /\ itsNodes = <<>>
    /\ nextName = <<>>
    /\ itsStream = <<>>
    /\ streamBad = FALSE
    /\ threw = "none"
    /\ ub = FALSE
    /\ phase = "write"
    /\ inStream = <<>>
    /\ rpos = 0
    /\ rthrew = FALSE
    /\ nBegin = 0
    /\ nEnd = 0
    /\ written = <<>>
    /\ nodeLog = <<>>
    /\ readLog = <<>>
    /\ call = NoCall
    /\ sib = NoSib
    /\ open = <<>>
    /\ emitLog = <<>>

\* what the output stream may accept of the record finishNode is about to write
WritesRecord == itsNodes # <<>> /\ ~IsElided(Top(itsNodes))

HeaderAccepts ==
    IF WritesRecord THEN Accepts(Len(RecordHeader(Top(itsNodes)))) ELSE {0}

PayloadAccepts ==
    IF WritesRecord THEN Accepts(Len(RecordPayload(Top(itsNodes)))) ELSE {0}

ReadSizes == {Len(v) : v \in Values}

\* lines 134-138
prologue == addNode

\* lines 140-144
epilogue == \E hdr \in HeaderAccepts : \E pay \in PayloadAccepts : finishNode(hdr, pay)

\* lines 191-196 and 223-228: the save functions of arithmetic values and of
\* BinaryData, the node's stream taking all of the bytes or fewer
save == \E data \in Values : \E n \in Accepts(Len(data)) : saveBinary(data, n)

\* lines 198-204 and 230-235: the load functions
load == \E size \in ReadSizes : loadBinary(size)

\* lines 206-213: the name of a NameValuePair, saved or loaded
nameValuePair == \E name \in Names : setNextName(name)

inputNameValuePair == \E name \in Names : inputSetNextName(name)

Next ==
    \/ prologue
    \/ nameValuePair
    \/ save
    \/ epilogue
    \/ openInput
    \/ load
    \/ inputNameValuePair

Spec == Init /\ [][Next]_vars

(***************************************************************************)
(* What the properties below read.                                         *)
(***************************************************************************)
\* byte i of the 8-byte little-endian encoding of v
WireByte(v, i) == ShiftRight(v, 8 * i) % 256

\* the 8-byte little-endian encoding of v
WireField(v) == [i \in 1..8 |-> WireByte(v, i - 1)]

\* the unsigned integer a little-endian byte sequence encodes
RECURSIVE LittleEndian(_)
LittleEndian(bytes) ==
    IF bytes = <<>> THEN 0 ELSE Head(bytes) + 256 * LittleEndian(Tail(bytes))

RECURSIVE Concat(_)
Concat(seqs) == IF seqs = <<>> THEN <<>> ELSE Head(seqs) \o Concat(Tail(seqs))

\* the last call was a saveBinary on an open node
Saved == call.op = "saveBinary" /\ call.nodes # <<>>

\* the last call was a finishNode on a node with itsSize > 0 that returned, on
\* an output stream that was good and accepted every byte: a record was emitted
Emitted ==
    /\ call.op = "finishNode"
    /\ call.nodes # <<>>
    /\ Top(call.nodes).itsSize > 0
    /\ call.ok
    /\ threw = "none"

\* the node of that record, the bytes the call appended, and their fields
EmittedNode == Top(call.nodes)
Record == Drop(itsStream, Len(call.sink))
NameLen == Len(EmittedNode.itsName)
TotalLengthBytes == SubSeq(Record, 1, 8)
NameLengthBytes == SubSeq(Record, 9, 16)
NameBytes == SubSeq(Record, 17, 16 + NameLen)
PayloadLengthBytes == SubSeq(Record, 17 + NameLen, 24 + NameLen)
PayloadBytes == Drop(Record, 24 + NameLen)

\* every saveBinary of the session was the only one on its node
OneWritePerNode == \A i \in 1..Len(written) : written[i].first

\* the reads so far ask for the sizes written, in the order written
ReadsMirrorWrites ==
    \A i \in 1..Len(readLog) :
        i <= Len(written) /\ readLog[i].size = Len(written[i].data)

(***************************************************************************)
(* C1. Round trip: values written one per node and read back with the same *)
(* sizes in the same order come back byte for byte.                        *)
(***************************************************************************)
C1_RoundTrip ==
    (phase = "read" /\ ~streamBad /\ OneWritePerNode /\ ReadsMirrorWrites)
        => \A i \in 1..Len(readLog) : readLog[i].data = written[i].data

(***************************************************************************)
(* C2. Every length field of an emitted record is the 8-byte little-endian *)
(* encoding of its value: byte i is (v >> 8*i) mod 256.                    *)
(***************************************************************************)
C2_LengthFieldEncoding ==
    Emitted =>
        /\ TotalLengthBytes = WireField(EmittedNode.itsSize + NameLen + 8)
        /\ NameLengthBytes = WireField(NameLen)
        /\ PayloadLengthBytes = WireField(EmittedNode.itsSize)

(***************************************************************************)
(* C3. The length fields of an emitted record, decoded from the wire,      *)
(* satisfy totalLength = payloadLength + nameLength + 8.                   *)
(***************************************************************************)
C3_LengthConsistency ==
    Emitted =>
        LittleEndian(TotalLengthBytes)
            = LittleEndian(PayloadLengthBytes) + LittleEndian(NameLengthBytes) + 8

(***************************************************************************)
(* C4. Each successful saveBinary raises the node's itsSize by the size    *)
(* written, so itsSize is the number of bytes in the node's buffer.        *)
(***************************************************************************)
C4_PayloadAccumulates ==
    (Saved /\ call.ok) =>
        /\ Top(itsNodes).itsSize = Top(call.nodes).itsSize + Len(call.arg)
        /\ Top(itsNodes).itsSize = Len(Top(itsNodes).itsStream)

(***************************************************************************)
(* C5. An emitted record is 24 + nameLength + payloadLength bytes: the     *)
(* three length fields, the name after the second, and after the third the *)
(* payload, which is every byte written to the node, in write order.       *)
(***************************************************************************)
C5_RecordLayout ==
    Emitted =>
        /\ Len(Record) = 24 + NameLen + Len(PayloadBytes)
        /\ NameBytes = EmittedNode.itsName
        /\ PayloadBytes = Concat([i \in 1..Len(call.log) |-> call.log[i].data])

(***************************************************************************)
(* C6. finishNode on a node whose itsSize is 0 appends nothing to the      *)
(* output stream and pops the node, whatever name is pending or bound; a   *)
(* run of empty sibling nodes leaves the stream as it was before the first.*)
(***************************************************************************)
C6_Elision ==
    /\ (call.op = "finishNode" /\ call.nodes # <<>> /\ Top(call.nodes).itsSize = 0)
          => /\ itsStream = call.sink
             /\ itsNodes = SubSeq(call.nodes, 1, Len(call.nodes) - 1)
             /\ threw = "none"
    /\ sib.n >= 1 => itsStream = sib.sink

\* two empty sibling nodes in a row have been ended while a name was pending
C6_Witness ==
    /\ sib.n = 2
    /\ call.op = "finishNode"
    /\ call.name # <<>>
    /\ itsStream = call.sink

(***************************************************************************)
(* C7. The first saveBinary on a node binds its name; a later saveBinary   *)
(* on the same node leaves the name as it was.                             *)
(***************************************************************************)
C7_NameBoundOnce ==
    (Saved /\ call.ok /\ call.log # <<>>)
        => Top(itsNodes).itsName = Top(call.nodes).itsName

(***************************************************************************)
(* C8. The pending name is one slot, used once: setNextName replaces what  *)
(* was pending and touches no node; saveBinary binds the name pending when *)
(* it is called to the top node only, and leaves the slot empty.           *)
(***************************************************************************)
C8_PendingNameSingleUse ==
    /\ call.op = "setNextName" => (nextName = call.arg /\ itsNodes = call.nodes)
    /\ Saved =>
          /\ Top(itsNodes).itsName = call.name
          /\ nextName = <<>>
          /\ Pop(itsNodes) = Pop(call.nodes)
          /\ (call.over # call.name => Top(itsNodes).itsName # call.over)

\* setNextName(a), setNextName(b), saveBinary: b is bound, a is not
C8_Witness ==
    /\ Saved
    /\ call.ok
    /\ call.over # <<>>
    /\ call.name # <<>>
    /\ call.over # call.name
    /\ Top(itsNodes).itsName = call.name

(***************************************************************************)
(* C9. One int 42 named "x" written at the top level.                      *)
(***************************************************************************)
\* the session so far is that scenario, on a stream that accepted every byte
C9_Scenario ==
    /\ phase = "write"
    /\ nBegin = 1
    /\ nEnd = 1
    /\ written = <<[data |-> Int42, name |-> NameX, first |-> TRUE]>>
    /\ ~streamBad
    /\ threw = "none"

RecordOf(total, name, data) ==
    WireField(total) \o WireField(Len(name)) \o name \o WireField(Len(data)) \o data

\* as claimed: the stream holds one record with totalLength = 20
C9_TotalLength20 == C9_Scenario => itsStream = RecordOf(20, NameX, Int42)

\* C9 as amended: the stream holds one record with totalLength = 13
\* (4 payload bytes + 1 name byte + 8), nameLength = 1, "x", payloadLength = 4
\* and the 4 bytes of 42
C9_TotalLength13 == C9_Scenario => itsStream = RecordOf(13, NameX, Int42)

C9_Witness == C9_Scenario /\ Len(itsStream) = 29

(***************************************************************************)
(* C10. The stack depth is the number of prologues minus the number of     *)
(* epilogues that returned: addNode always pushes one node, the stack is   *)
(* empty before the first value and after the last one's epilogue.         *)
(***************************************************************************)
C10_StackBalance ==
    /\ ~ub
    /\ Len(itsNodes) = nBegin - nEnd
    /\ call.op = "addNode" => (Len(itsNodes) = Len(call.nodes) + 1 /\ threw = "none")
    /\ ~HostInValue => itsNodes = <<>>

\* two values, one of them written, each begun and ended: the stack is empty
C10_Witness ==
    /\ phase = "write"
    /\ nBegin = 2
    /\ nEnd = 2
    /\ written # <<>>
    /\ itsStream # <<>>
    /\ itsNodes = <<>>

(***************************************************************************)
(* C11. finishNode on a node with itsSize > 0 throws if and only if the    *)
(* output stream took fewer bytes than it was given for some part of the   *)
(* record: a length field, the name or the payload.                        *)
(***************************************************************************)
\* the last call was a finishNode on a node with itsSize > 0
FinishedRecord ==
    call.op = "finishNode" /\ call.nodes # <<>> /\ Top(call.nodes).itsSize > 0

C11_ShortWriteAtFinish ==
    FinishedRecord => ((threw = "finishNode") <=> ~call.ok)

(***************************************************************************)
(* C12. saveBinary throws exactly when the node's buffer took fewer bytes  *)
(* than the size given, and returns when it took them all.                 *)
(***************************************************************************)
\* the bytes the last saveBinary appended to the top node's buffer
Appended == Len(Top(itsNodes).itsStream) - Len(Top(call.nodes).itsStream)

C12_ShortWriteAtSave ==
    Saved => ((threw = "saveBinary") <=> (Appended < Len(call.arg)))

\* a saveBinary of 4 bytes of which the buffer took 3 has thrown
C12_Witness ==
    /\ Saved
    /\ call.arg = Int42
    /\ Appended = 3
    /\ threw = "saveBinary"

(***************************************************************************)
(* C13. loadBinary(size) with r bytes left returns the next size bytes and *)
(* advances by size when r >= size, and throws when r < size; the reads    *)
(* that returned are consecutive segments of the stream from its start.    *)
(***************************************************************************)
\* the bytes left in the input stream when the last call started
Remaining == Len(call.sink) - call.pos

C13_Reader ==
    /\ call.op = "loadBinary" =>
          IF Remaining >= call.size
          THEN /\ ~rthrew
               /\ rpos = call.pos + call.size
               /\ readLog = Append(call.log,
                                   [size |-> call.size, pos |-> call.pos,
                                    data |-> SubSeq(call.sink, call.pos + 1,
                                                    call.pos + call.size)])
          ELSE rthrew /\ readLog = call.log
    /\ \A i \in 1..Len(readLog) :
          /\ readLog[i].pos = (IF i = 1 THEN 0
                               ELSE readLog[i - 1].pos + readLog[i - 1].size)
          /\ readLog[i].data = SubSeq(inStream, readLog[i].pos + 1,
                                      readLog[i].pos + readLog[i].size)

\* two reads of 4 bytes have returned the first 8 bytes of a record's header
C13_Witness ==
    /\ call.op = "loadBinary"
    /\ Len(readLog) = 2
    /\ readLog[1].size = 4
    /\ readLog[2].size = 4
    /\ readLog[1].data # readLog[2].data
    /\ rpos = 8

(***************************************************************************)
(* C14. setNextName on the input archive changes no reader state: the get  *)
(* position, the stream, the error state and the reads returned are as     *)
(* before it; what the reads return depends on the stream and on the sizes *)
(* asked for alone.                                                        *)
(***************************************************************************)
C14_ReaderNameNoOp ==
    /\ call.op = "inputSetNextName" =>
          /\ rpos = call.pos
          /\ inStream = call.sink
          /\ readLog = call.log
          /\ ~rthrew
    /\ (phase = "read" /\ ~rthrew) =>
          Concat([i \in 1..Len(readLog) |-> readLog[i].data]) = Take(inStream, rpos)

\* a name has been set between two reads
C14_Witness ==
    /\ call.op = "inputSetNextName"
    /\ call.arg = NameAB
    /\ Len(readLog) = 1
    /\ readLog[1].size = 4
    /\ rpos = 4

(***************************************************************************)
(* C15. Emission order: the output stream is the bytes of the finishNode   *)
(* calls that wrote, in call order; the record of a node nested in another *)
(* is written before the record of the outer node; and a payload is a      *)
(* prefix of the bytes written to its own node, never bytes of a node      *)
(* nested in it.                                                           *)
(***************************************************************************)
C15_EmissionOrder ==
    phase = "write" =>
        /\ itsStream = Concat([i \in 1..Len(emitLog) |->
                                  emitLog[i].hdr \o emitLog[i].pay])
        /\ \A i \in 1..Len(emitLog) :
              /\ emitLog[i].at = Len(Concat([j \in 1..(i - 1) |->
                                                emitLog[j].hdr \o emitLog[j].pay]))
              /\ emitLog[i].pay = Take(emitLog[i].own, Len(emitLog[i].pay))
              /\ \A j \in 1..Len(emitLog) :
                    emitLog[j].id \in emitLog[i].anc => i < j

\* a node with bytes of its own had a node nested in it; both records are in
\* the output stream, the nested node's first
C15_Witness ==
    /\ phase = "write"
    /\ threw = "none"
    /\ ~streamBad
    /\ Len(emitLog) = 2
    /\ emitLog[2].id \in emitLog[1].anc
    /\ emitLog[1].pay = Int42
    /\ emitLog[2].pay = Double1
    /\ emitLog[2].at = Len(emitLog[1].hdr) + 4

(***************************************************************************)
(* C16. Writes touch only the top node: saveBinary, addNode and finishNode *)
(* leave every node below the top as it was, and when finishNode has       *)
(* popped a node the stack is the one that node was pushed on.             *)
(***************************************************************************)
\* the nodes of `nodes` below position k
Below(nodes, k) == SubSeq(nodes, 1, k - 1)

C16_TopOnly ==
    /\ Saved =>
          /\ Len(itsNodes) = Len(call.nodes)
          /\ Pop(itsNodes) = Pop(call.nodes)
    /\ call.op = "addNode" => Pop(itsNodes) = call.nodes
    /\ (call.op = "finishNode" /\ call.nodes # <<>>) =>
          /\ Below(itsNodes, Len(call.nodes)) = Pop(call.nodes)
          /\ threw = "none" => itsNodes = call.below
    /\ (phase = "write" /\ ~ub) =>
          /\ Len(open) = Len(itsNodes)
          /\ \A k \in 1..Len(open) : open[k].below = Below(itsNodes, k)

\* a nested node has been written to and finished; the node it was pushed on
\* is the top again with the name and bytes it had
C16_Witness ==
    /\ call.op = "finishNode"
    /\ Len(call.nodes) = 2
    /\ Top(call.nodes).itsSize = 8
    /\ threw = "none"
    /\ Len(itsNodes) = 1
    /\ Top(itsNodes).itsStream = Int42
    /\ Top(itsNodes).itsSize = 4
    /\ Top(itsNodes).itsName = NameX
    /\ call.below = itsNodes

(***************************************************************************)
(* C17. No rollback on a failed finishNode: when finishNode throws because *)
(* the stream took only part of the payload, the header bytes it wrote are *)
(* in the output stream after what was there before, the node is still on  *)
(* the stack, and what was in the output stream before is unchanged.       *)
(***************************************************************************)
\* what the last call appended to the output stream
SinkGrowth == Drop(itsStream, Len(call.sink))

C17_NoRollback ==
    threw = "finishNode" =>
        /\ call.op = "finishNode"
        /\ ~call.ok
        /\ itsNodes = call.nodes
        /\ Len(itsNodes) > 0
        /\ Take(itsStream, Len(call.sink)) = call.sink
        /\ LET node == Top(call.nodes)
               header == IF streamBad THEN Top(emitLog).hdr ELSE RecordHeader(node)
           IN  /\ Take(SinkGrowth, Len(header)) = header
               /\ Drop(SinkGrowth, Len(header)) = Top(emitLog).pay
               /\ Len(Top(emitLog).pay) < node.itsSize
               /\ Top(emitLog).pay = Take(RecordPayload(node), Len(Top(emitLog).pay))

\* the second record's payload was cut short on a stream that took its whole
\* header: the first record and that header are in the output stream
C17_Witness ==
    /\ threw = "finishNode"
    /\ ~streamBad
    /\ Len(emitLog) = 2
    /\ call.sink = emitLog[1].hdr \o emitLog[1].pay
    /\ Len(call.sink) > 24
    /\ Len(SinkGrowth) = Len(RecordHeader(Top(itsNodes))) + Top(itsNodes).itsSize - 1
    /\ Len(SinkGrowth) > 24

(***************************************************************************)
(* C18. The output stream is append-only and only a finishNode on a node   *)
(* with itsSize > 0 changes it: addNode, setNextName, saveBinary and a     *)
(* finishNode on a node with itsSize = 0 leave it as it was, and every     *)
(* content it had is a prefix of the content it has.                       *)
(***************************************************************************)
WriterCalls == {"addNode", "setNextName", "saveBinary", "finishNode"}

C18_AppendOnly ==
    /\ call.op \in {"addNode", "setNextName", "saveBinary"} => itsStream = call.sink
    /\ (call.op = "finishNode" /\ call.nodes # <<>> /\ IsElided(Top(call.nodes))) =>
          itsStream = call.sink
    /\ call.op \in WriterCalls => Take(itsStream, Len(call.sink)) = call.sink
    /\ phase = "write" =>
          \A i \in 1..Len(emitLog) :
              /\ Take(itsStream, emitLog[i].at) = emitLog[i].sink
              /\ Len(emitLog[i].sink) = emitLog[i].at

\* a second record has been appended to a stream that held the first
C18_Witness ==
    /\ call.op = "finishNode"
    /\ call.ok
    /\ threw = "none"
    /\ Len(emitLog) = 2
    /\ emitLog[2].sink = call.sink
    /\ Len(call.sink) > 24
    /\ Len(itsStream) > Len(call.sink) + 24

(***************************************************************************)
(* C19. No access to an empty stack: with prologue before and epilogue     *)
(* after each value and the writes between them, every saveBinary and      *)
(* every finishNode finds a node on the stack, and top() and pop() are     *)
(* never called on an empty stack.                                         *)
(***************************************************************************)
C19_StackNeverEmptyOnAccess ==
    /\ ~ub
    /\ call.op \in {"saveBinary", "finishNode"} => call.nodes # <<>>
    /\ (phase = "write" /\ HostInValue) => itsNodes # <<>>

\* the epilogue of the second of two values has popped the last node
C19_Witness ==
    /\ call.op = "finishNode"
    /\ Len(call.nodes) = 1
    /\ itsNodes = <<>>
    /\ nBegin = 2
    /\ nEnd = 2
    /\ Len(written) = 2
    /\ threw = "none"

(***************************************************************************)
(* C20. A saveBinary of no bytes consumes the pending name without output: *)
(* it empties nextName and leaves the node's itsSize at 0, the finishNode  *)
(* of a node whose last saveBinary was of no bytes writes nothing, and the *)
(* name in every record written is the one taken by a saveBinary of at     *)
(* least one byte, the last on its node.                                   *)
(***************************************************************************)
Last(log) == log[Len(log)]

C20_ZeroLengthWrite ==
    /\ (Saved /\ call.arg = <<>>) =>
          /\ nextName = <<>>
          /\ Top(itsNodes).itsSize = 0
          /\ itsStream = call.sink
          /\ threw = "none"
    /\ (call.op = "finishNode" /\ call.log # <<>> /\ Last(call.log).data = <<>>) =>
          /\ itsStream = call.sink
          /\ threw = "none"
    /\ phase = "write" =>
          \A i \in 1..Len(emitLog) :
              LET log == emitLog[i].log
                  name == emitLog[i].name
              IN  /\ log # <<>>
                  /\ Last(log).data # <<>>
                  /\ name = Last(log).name
                  /\ Len(emitLog[i].hdr) >= 16 + Len(name) =>
                        SubSeq(emitLog[i].hdr, 17, 16 + Len(name)) = name

\* "x" was pending at a saveBinary of no bytes on a node that then took 4
\* bytes with "ab" pending: the node's record carries "ab"
C20_Witness ==
    /\ call.op = "finishNode"
    /\ call.ok
    /\ threw = "none"
    /\ Len(emitLog) = 1
    /\ Len(emitLog[1].log) = 2
    /\ emitLog[1].log[1] = [name |-> NameX, data |-> NoBytes]
    /\ emitLog[1].log[2] = [name |-> NameAB, data |-> Int42]
    /\ SubSeq(itsStream, 17, 18) = NameAB

====
